---- MODULE Spec2Model ----
(***************************************************************************)
(* Valley Farm 3D: the farm simulation state machine of src/src/App.tsx.   *)
(*                                                                         *)
(* gameState is the React state held by App (useState).  rendered is the   *)
(* gameState value captured by the closures of the last render of          *)
(* FarmScene: handlePlotClick / handleCropClick evaluate their guards on   *)
(* rendered and hand setGameState an updater that is applied to the        *)
(* current state (prev).  pending counts the updaters queued since the     *)
(* last render.  Under Spec every operation is followed by the re-render   *)
(* before the next one is handled (rendered' = gameState'); under          *)
(* SpecQueued the re-render is a step of its own, and operations handled   *)
(* before it read the closures of the render before.                       *)
(***************************************************************************)
EXTENDS Integers, Sequences, FiniteSets

VARIABLES gameState, rendered, pending, opening, lastOp

vars == <<gameState, rendered, pending, opening, lastOp>>

(***************************************************************************)
(* Program constants                                                       *)
(***************************************************************************)
GridSize == 7

Tools == {"hoe", "water", "seed", "harvest"}

types == <<"carrot", "tomato", "corn", "turnip">>

seasons == <<"Spring", "Summer", "Fall", "Winter">>

CROP_PRICES == [t \in {"carrot", "tomato", "corn", "turnip"} |->
                  CASE t = "carrot" -> 35
                    [] t = "tomato" -> 60
                    [] t = "corn"   -> 50
                    [] t = "turnip" -> 40]

(***************************************************************************)
(* Bounds of the model                                                     *)
(***************************************************************************)
\* after the opening the player clicks the plots (0,0) .. (WinCells-1,0)
\* and the crops on them
WinCells == 2
\* after the opening the Next Day button is pressed while day < MaxDay
MaxDay == 5
\* Date.now() returns a value in 0..MaxNow
MaxNow == 0
\* a ready crop is harvested while gold <= MaxGold
MaxGold == 20

\* at most MaxPending updaters are queued between two renders
MaxPending == 2

\* the days of the tilling behaviours
MaxTillDay == 3
\* under SpecCalendar the Next Day button is pressed while day < MaxCalendarDay
MaxCalendarDay == 114

Plots == (0..(GridSize - 1)) \X (0..(GridSize - 1))

Window == {p \in Plots : p[1] < WinCells /\ p[2] = 0}

(***************************************************************************)
(* Helpers                                                                 *)
(***************************************************************************)
Min(a, b) == IF a <= b THEN a ELSE b

Digit == <<"0", "1", "2", "3", "4", "5", "6", "7", "8", "9">>

\* the decimal string of a non-negative integer, as its characters
RECURSIVE ToString(_)
ToString(n) ==
  IF n < 10 THEN <<Digit[n + 1]>>
  ELSE ToString(n \div 10) \o <<Digit[(n % 10) + 1]>>

\* `${x},${z}`
plotKey(x, z) == ToString(x) \o <<",">> \o ToString(z)

\* mutant: the id is the timestamp alone
CropId_TimeOnly(x, z, ts) == ToString(ts)

\* `${x}-${z}-${Date.now()}`
CropId(x, z, ts) == ToString(x) \o <<"-">> \o ToString(z) \o <<"-">> \o ToString(ts)

\* crops.find(c => c.x === x && c.z === z): <<the first match>>, or <<>>
\* for undefined
existingCrop(gs, x, z) ==
  LET hits == {i \in 1..Len(gs.crops) : gs.crops[i].x = x /\ gs.crops[i].z = z}
  IN IF hits = {} THEN <<>>
     ELSE <<gs.crops[CHOOSE i \in hits : \A j \in hits : i <= j]>>

\* crops.filter(c => c.id !== id)
RECURSIVE FilterOutId(_, _)
FilterOutId(crops, id) ==
  IF crops = <<>> THEN <<>>
  ELSE IF Head(crops).id # id
       THEN <<Head(crops)>> \o FilterOutId(Tail(crops), id)
       ELSE FilterOutId(Tail(crops), id)

\* crops.map(c => c.id === id ? { ...c, stage: Math.min(c.stage + 1, 3) } : c)
GrowById(crops, id) ==
  [i \in 1..Len(crops) |->
     IF crops[i].id = id
     THEN [crops[i] EXCEPT !.stage = Min(crops[i].stage + 1, 3)]
     ELSE crops[i]]

(***************************************************************************)
(* The handlers, as functions of the rendered state gs (read by the        *)
(* guards) and of the state prev the queued updater is applied to.         *)
(***************************************************************************)
\* mutant: a tilled plot is tilled again
CanTill_NoTilledCheck(gs, x, z) ==
  /\ gs.selectedTool = "hoe"
  /\ gs.energy >= 5

CanTill_NoEnergyCheck(gs, x, z) ==
  /\ gs.selectedTool = "hoe"
  /\ plotKey(x, z) \notin gs.tiledPlots

CanTill(gs, x, z) ==
  /\ gs.selectedTool = "hoe"
  /\ plotKey(x, z) \notin gs.tiledPlots
  /\ gs.energy >= 5

Till(prev, x, z) ==
  [prev EXCEPT !.tiledPlots = prev.tiledPlots \cup {plotKey(x, z)},
               !.energy = prev.energy - 5]

\* mutant: the gold check is missing
CanSeed_NoGoldCheck(gs, x, z) ==
  /\ gs.selectedTool = "seed"
  /\ plotKey(x, z) \in gs.tiledPlots
  /\ existingCrop(gs, x, z) = <<>>
  /\ gs.energy >= 2

\* mutant: the existingCrop check is missing
CanSeed_NoOccupancyCheck(gs, x, z) ==
  /\ gs.selectedTool = "seed"
  /\ plotKey(x, z) \in gs.tiledPlots
  /\ gs.gold >= 20
  /\ gs.energy >= 2

\* mutant: gold > 20 for gold >= 20
CanSeed_GoldStrict(gs, x, z) ==
  /\ gs.selectedTool = "seed"
  /\ plotKey(x, z) \in gs.tiledPlots
  /\ existingCrop(gs, x, z) = <<>>
  /\ gs.gold > 20
  /\ gs.energy >= 2

CanSeed_NoTilledCheck(gs, x, z) ==
  /\ gs.selectedTool = "seed"
  /\ existingCrop(gs, x, z) = <<>>
  /\ gs.gold >= 20
  /\ gs.energy >= 2

CanSeed(gs, x, z) ==
  /\ gs.selectedTool = "seed"
  /\ plotKey(x, z) \in gs.tiledPlots
  /\ existingCrop(gs, x, z) = <<>>
  /\ gs.gold >= 20
  /\ gs.energy >= 2

\* r is Math.floor(Math.random() * types.length), ts is Date.now()
newCrop(gs, x, z, r, ts) ==
  [id |-> CropId(x, z, ts), x |-> x, z |-> z, type |-> types[r + 1],
   stage |-> 0, plantedDay |-> gs.day]

Sow_CostsMore(prev, crop) ==
  [prev EXCEPT !.crops = Append(prev.crops, crop),
               !.gold = prev.gold - 25,
               !.energy = prev.energy - 2]

Sow(prev, crop) ==
  [prev EXCEPT !.crops = Append(prev.crops, crop),
               !.gold = prev.gold - 20,
               !.energy = prev.energy - 2]

\* mutant: the stage check is missing
CanWaterPlot_NoStageCheck(gs, x, z) ==
  /\ gs.selectedTool = "water"
  /\ existingCrop(gs, x, z) # <<>>
  /\ gs.energy >= 3

CanWaterPlot(gs, x, z) ==
  /\ gs.selectedTool = "water"
  /\ existingCrop(gs, x, z) # <<>>
  /\ existingCrop(gs, x, z)[1].stage < 3
  /\ gs.energy >= 3

Water_TwoStages(prev, id) ==
  [prev EXCEPT !.crops = GrowById(GrowById(prev.crops, id), id),
               !.energy = prev.energy - 3]

Water_CostsGold(prev, id) ==
  [prev EXCEPT !.crops = GrowById(prev.crops, id),
               !.gold = prev.gold - 3]

Water(prev, id) ==
  [prev EXCEPT !.crops = GrowById(prev.crops, id),
               !.energy = prev.energy - 3]

handlePlotClick(gs, prev, x, z, r, ts) ==
  IF CanTill(gs, x, z) THEN Till(prev, x, z)
  ELSE IF CanSeed(gs, x, z) THEN Sow(prev, newCrop(gs, x, z, r, ts))
  ELSE IF CanWaterPlot(gs, x, z) THEN Water(prev, existingCrop(gs, x, z)[1].id)
  ELSE prev

CanHarvest(gs, crop) ==
  /\ gs.selectedTool = "harvest"
  /\ crop.stage = 3

\* mutant: every crop sells at the carrot's price
Harvest_FlatPrice(prev, crop) ==
  [prev EXCEPT !.crops = FilterOutId(prev.crops, crop.id),
               !.gold = prev.gold + CROP_PRICES["carrot"]]

Harvest_Untills(prev, crop) ==
  [prev EXCEPT !.crops = FilterOutId(prev.crops, crop.id),
               !.gold = prev.gold + CROP_PRICES[crop.type],
               !.tiledPlots = prev.tiledPlots \ {plotKey(crop.x, crop.z)}]

Harvest(prev, crop) ==
  LET earnedGold == CROP_PRICES[crop.type]
  IN [prev EXCEPT !.crops = FilterOutId(prev.crops, crop.id),
                  !.gold = prev.gold + earnedGold]

\* mutant: the energy check is missing
CanWaterCrop_NoEnergyCheck(gs, crop) ==
  /\ gs.selectedTool = "water"
  /\ crop.stage < 3

CanWaterCrop_EnergyStrict(gs, crop) ==
  /\ gs.selectedTool = "water"
  /\ crop.stage < 3
  /\ gs.energy > 3

CanWaterCrop(gs, crop) ==
  /\ gs.selectedTool = "water"
  /\ crop.stage < 3
  /\ gs.energy >= 3

handleCropClick(gs, prev, crop) ==
  IF CanHarvest(gs, crop) THEN Harvest(prev, crop)
  ELSE IF CanWaterCrop(gs, crop) THEN Water(prev, crop.id)
  ELSE prev

\* mutant: energy is not refilled
nextDay_NoRefill(prev) ==
  LET newDay == prev.day + 1
      seasonIndex == ((newDay - 1) \div 28) % 4
  IN [prev EXCEPT !.day = newDay,
                  !.season = seasons[seasonIndex + 1]]

\* mutant: Math.floor(newDay / 28) for Math.floor((newDay - 1) / 28)
nextDay_SeasonOffByOne(prev) ==
  LET newDay == prev.day + 1
      seasonIndex == (newDay \div 28) % 4
  IN [prev EXCEPT !.day = newDay,
                  !.season = seasons[seasonIndex + 1],
                  !.energy = 100]

nextDay(prev) ==
  LET newDay == prev.day + 1
      seasonIndex == ((newDay - 1) \div 28) % 4
  IN [prev EXCEPT !.day = newDay,
                  !.season = seasons[seasonIndex + 1],
                  !.energy = 100]

selectTool_Toggle(prev, t) ==
  [prev EXCEPT !.selectedTool = IF prev.selectedTool = t THEN "hoe" ELSE t]

selectTool(prev, t) == [prev EXCEPT !.selectedTool = t]

InitialState ==
  [day |-> 1, season |-> "Spring", gold |-> 500, energy |-> 100,
   selectedTool |-> "hoe", crops |-> <<>>, tiledPlots |-> {}]

(***************************************************************************)
(* The opening: the first operations of every behaviour of Spec are a      *)
(* fixed play-through that fills the field, since gold runs low only once  *)
(* 25 crops stand.  Day 1: (0,0) is tilled and sown, 18 more plots are     *)
(* tilled (energy 3) and a hoe click on a 19th follows.  Day 2: seven more *)
(* are tilled, 24 of the empty ones are sown within one millisecond (gold  *)
(* 0, energy 17) and a seed click on the last empty one follows.  Day 3:   *)
(* the crop of (0,0) is watered three times.  Day 4: another 15 plots are  *)
(* tilled and four crops of the field are watered once (energy 13).        *)
(* Plot (0,0) is in the clicked window, every other plot of the opening    *)
(* lies in rows 1..6.  After the opening the operations and their inputs   *)
(* are free within the bounds.                                             *)
(***************************************************************************)
FieldPlots ==
  [i \in 1..25 |-> IF i = 1 THEN <<0, 0>>
                   ELSE <<(i - 2) % GridSize, 3 + ((i - 2) \div GridSize)>>]

FallowPlots ==
  [i \in 1..16 |-> IF i > 14 THEN <<GridSize + 14 - i, GridSize - 1>>
                   ELSE <<(i - 1) % GridSize, 1 + ((i - 1) \div GridSize)>>]

Input(kind, x, z, r, ts, t) ==
  [kind |-> kind, x |-> x, z |-> z, r |-> r, ts |-> ts, t |-> t]

PlotInput(p, r, ts) == Input("plotClick", p[1], p[2], r, ts, "")

ToolInput(t) == Input("selectTool", 0, 0, 0, 0, t)

DayInput == Input("nextDay", 0, 0, 0, 0, "")

Opening ==
  <<PlotInput(FieldPlots[1], 0, 0),
    ToolInput("seed"),
    PlotInput(FieldPlots[1], 3, 0),
    ToolInput("hoe")>>
  \o [i \in 1..19 |-> PlotInput(FieldPlots[i + 1], 0, 0)]
  \o <<DayInput>>
  \o [i \in 1..6 |-> PlotInput(FieldPlots[19 + i], 0, 0)]
  \o <<PlotInput(FallowPlots[1], 0, 0), ToolInput("seed")>>
  \o [i \in 1..24 |-> PlotInput(FieldPlots[i + 1], i % 4, 0)]
  \o <<PlotInput(FallowPlots[1], 0, 0), DayInput, ToolInput("water")>>
  \o [i \in 1..3 |-> PlotInput(FieldPlots[1], 0, 0)]
  \o <<DayInput, ToolInput("hoe")>>
  \o [i \in 1..15 |-> PlotInput(FallowPlots[i + 1], 0, 0)]
  \o <<ToolInput("water")>>
  \o [i \in 1..4 |-> PlotInput(FieldPlots[i + 1], 0, 0)]

\* the day on which the opening ends
OpeningDay == 1 + Cardinality({i \in DOMAIN Opening : Opening[i].kind = "nextDay"})

(***************************************************************************)
(* State machine                                                           *)
(***************************************************************************)
InOpening == opening < Len(Opening)

\* the input is the next one of the opening, or the opening is over
Plays(in) ==
  /\ InOpening => in = Opening[opening + 1]
  /\ opening' = IF InOpening THEN opening + 1 ELSE opening

\* after the opening, plots and crops are clicked on the day the opening
\* ended; on later days only the tool and day buttons are pressed
ClickDay == gameState.day = OpeningDay

NoId == <<>>

\* lastOp: the operation handled last and its target
Op(kind, x, z, id) == [kind |-> kind, x |-> x, z |-> z, id |-> id]

Init ==
  /\ gameState = InitialState
  /\ rendered = gameState
  /\ pending = 0
  /\ opening = 0
  /\ lastOp = Op("init", -1, -1, NoId)

\* ToolButton onClick
SelectTool(t) ==
  /\ Plays(ToolInput(t))
  /\ gameState' = selectTool(gameState, t)
  /\ rendered' = gameState'
  /\ pending' = 0
  /\ lastOp' = Op("selectTool", -1, -1, NoId)

\* FarmPlot onClick -> handlePlotClick(x, z); Math.random() and Date.now()
\* are called in the seed branch only
PlotClick(x, z) ==
  /\ ~InOpening => (<<x, z>> \in Window /\ ClickDay)
  /\ InOpening => (Opening[opening + 1].x = x /\ Opening[opening + 1].z = z)
  /\ \E r \in IF CanSeed(rendered, x, z) THEN 0..3 ELSE {0},
        ts \in IF CanSeed(rendered, x, z) THEN 0..MaxNow ELSE {0} :
       /\ Plays(PlotInput(<<x, z>>, r, ts))
       /\ gameState' = handlePlotClick(rendered, gameState, x, z, r, ts)
       /\ rendered' = gameState'
       /\ pending' = 0
       /\ lastOp' = Op("plotClick", x, z, NoId)

\* Crop onClick -> handleCropClick(crop), crop being an element of the
\* rendered crops
CropClick(i) ==
  LET crop == rendered.crops[i]
  IN /\ ~InOpening
     /\ <<crop.x, crop.z>> \in Window /\ ClickDay
     /\ rendered.selectedTool = "harvest" => gameState.gold <= MaxGold
     /\ gameState' = handleCropClick(rendered, gameState, crop)
     /\ rendered' = gameState'
     /\ pending' = 0
     /\ lastOp' = Op("cropClick", crop.x, crop.z, crop.id)
     /\ UNCHANGED opening

\* Next Day button -> nextDay()
NextDay ==
  /\ Plays(DayInput)
  /\ ~InOpening => gameState.day < MaxDay
  /\ gameState' = nextDay(gameState)
  /\ rendered' = gameState'
  /\ pending' = 0
  /\ lastOp' = Op("nextDay", -1, -1, NoId)

Next ==
  \/ \E t \in Tools : SelectTool(t)
  \/ \E p \in Plots : PlotClick(p[1], p[2])
  \/ \E i \in 1..Len(rendered.crops) : CropClick(i)
  \/ NextDay

Spec == Init /\ [][Next]_vars

(***************************************************************************)
(* Queued updates: after the opening the re-render of FarmScene is a step  *)
(* of its own.  An operation handled before it evaluates its guard on the  *)
(* gameState of the last render (and handleCropClick on the crop object of *)
(* that render), while its updater is applied to the current state.        *)
(***************************************************************************)
CanQueue == ~InOpening /\ pending < MaxPending

QueuedSelectTool(t) ==
  /\ CanQueue
  /\ gameState' = selectTool(gameState, t)
  /\ pending' = pending + 1
  /\ lastOp' = Op("selectTool", -1, -1, NoId)
  /\ UNCHANGED <<rendered, opening>>

QueuedPlotClick(x, z) ==
  /\ CanQueue
  /\ <<x, z>> \in Window /\ ClickDay
  /\ \E r \in IF CanSeed(rendered, x, z) THEN 0..3 ELSE {0},
        ts \in IF CanSeed(rendered, x, z) THEN 0..MaxNow ELSE {0} :
       gameState' = handlePlotClick(rendered, gameState, x, z, r, ts)
  /\ pending' = pending + 1
  /\ lastOp' = Op("plotClick", x, z, NoId)
  /\ UNCHANGED <<rendered, opening>>

QueuedCropClick(i) ==
  LET crop == rendered.crops[i]
  IN /\ CanQueue
     /\ <<crop.x, crop.z>> \in Window /\ ClickDay
     /\ rendered.selectedTool = "harvest" => gameState.gold <= MaxGold
     /\ gameState' = handleCropClick(rendered, gameState, crop)
     /\ pending' = pending + 1
     /\ lastOp' = Op("cropClick", crop.x, crop.z, crop.id)
     /\ UNCHANGED <<rendered, opening>>

QueuedNextDay ==
  /\ CanQueue
  /\ gameState.day < MaxDay
  /\ gameState' = nextDay(gameState)
  /\ pending' = pending + 1
  /\ lastOp' = Op("nextDay", -1, -1, NoId)
  /\ UNCHANGED <<rendered, opening>>

\* React applies the queued updaters and renders App and FarmScene again
Render ==
  /\ pending > 0
  /\ rendered' = gameState
  /\ pending' = 0
  /\ lastOp' = Op("render", -1, -1, NoId)
  /\ UNCHANGED <<gameState, opening>>

\* the opening is played as under Spec
NextQueued ==
  \/ InOpening /\ Next
  \/ \E t \in Tools : QueuedSelectTool(t)
  \/ \E p \in Plots : QueuedPlotClick(p[1], p[2])
  \/ \E i \in 1..Len(rendered.crops) : QueuedCropClick(i)
  \/ QueuedNextDay
  \/ Render

SpecQueued == Init /\ [][NextQueued]_vars

(***************************************************************************)
(* The calendar: no opening is played and the Next Day button is pressed   *)
(* up to day MaxCalendarDay, through more than one cycle of the seasons.   *)
(* Plots and crops are clicked under Spec.                                 *)
(***************************************************************************)
InitCalendar ==
  /\ gameState = InitialState
  /\ rendered = gameState
  /\ pending = 0
  /\ opening = Len(Opening)
  /\ lastOp = Op("init", -1, -1, NoId)

NextDayCalendar ==
  /\ gameState.day < MaxCalendarDay
  /\ gameState' = nextDay(gameState)
  /\ rendered' = gameState'
  /\ pending' = 0
  /\ lastOp' = Op("nextDay", -1, -1, NoId)
  /\ UNCHANGED opening

NextCalendar ==
  \/ \E t \in Tools : SelectTool(t)
  \/ NextDayCalendar

SpecCalendar == InitCalendar /\ [][NextCalendar]_vars

(***************************************************************************)
(* Tilling: no opening is played; from the initial state the hoe is used   *)
(* on the plots of the grid in a fixed order, the click going to the first *)
(* plot not yet tilled, and the day is advanced up to day MaxTillDay.      *)
(***************************************************************************)
TillOrder ==
  [i \in 1..(GridSize * GridSize) |-> <<(i - 1) % GridSize, (i - 1) \div GridSize>>]

HoeClick ==
  /\ Cardinality(gameState.tiledPlots) < GridSize * GridSize
  /\ LET p == TillOrder[Cardinality(gameState.tiledPlots) + 1]
     IN /\ gameState' = handlePlotClick(rendered, gameState, p[1], p[2], 0, 0)
        /\ lastOp' = Op("plotClick", p[1], p[2], NoId)
  /\ rendered' = gameState'
  /\ pending' = 0
  /\ UNCHANGED opening

NextDayTilling ==
  /\ gameState.day < MaxTillDay
  /\ gameState' = nextDay(gameState)
  /\ rendered' = gameState'
  /\ pending' = 0
  /\ lastOp' = Op("nextDay", -1, -1, NoId)
  /\ UNCHANGED opening

NextTilling == HoeClick \/ NextDayTilling

SpecTilling == InitCalendar /\ [][NextTilling]_vars

(***************************************************************************)
(* Vocabulary of the claims                                                *)
(***************************************************************************)
\* the positions in the collection of the crops standing on (x, z)
CropsAt(s, x, z) == {i \in 1..Len(s.crops) : s.crops[i].x = x /\ s.crops[i].z = z}

IsTilled(s, x, z) == plotKey(x, z) \in s.tiledPlots

\* the collection without its k-th crop
Without(crops, k) == SubSeq(crops, 1, k - 1) \o SubSeq(crops, k + 1, Len(crops))

\* the step handles a click on plot (x, z)
PlotClicked(x, z) == lastOp' = Op("plotClick", x, z, NoId)

\* the step handles a click on the crop at position k of the collection
CropClicked(k) ==
  lastOp' = Op("cropClick", gameState.crops[k].x, gameState.crops[k].z,
               gameState.crops[k].id)

\* the step leaves the named fields of gameState as they were
Keeps(fields) == \A f \in fields : gameState'[f] = gameState[f]

(***************************************************************************)
(* C1: after every operation gold >= 0 and 0 <= energy <= 100.             *)
(***************************************************************************)
C1_ResourcesInRange ==
  /\ gameState.gold >= 0
  /\ gameState.energy >= 0
  /\ gameState.energy <= 100

\* a click was handled with too little energy left for any tool and too
\* little gold for a seed
C1_Witness ==
  /\ ~InOpening
  /\ lastOp.kind \in {"plotClick", "cropClick"}
  /\ gameState.energy < 2
  /\ gameState.gold < 20

(***************************************************************************)
(* C2: no two crops of the collection stand on the same plot.              *)
(***************************************************************************)
C2_OneCropPerPlot ==
  \A i, j \in 1..Len(gameState.crops) :
    (gameState.crops[i].x = gameState.crops[j].x
       /\ gameState.crops[i].z = gameState.crops[j].z) => i = j

\* plot (0,0), sown on day 1 and harvested since, carries a crop sown on the
\* day the opening ended, among the 24 others
C2_Witness ==
  /\ Len(gameState.crops) = 25
  /\ \E i \in CropsAt(gameState, 0, 0) : gameState.crops[i].plantedDay = OpeningDay

(***************************************************************************)
(* C10: no two crops of the collection have the same id, also when they    *)
(* were sown in the same millisecond.                                      *)
(***************************************************************************)
C10_UniqueIds ==
  \A i, j \in 1..Len(gameState.crops) :
    gameState.crops[i].id = gameState.crops[j].id => i = j

\* a crop sown on a window plot after the opening in the millisecond in
\* which the crops of the opening were sown
C10_Witness ==
  /\ ~InOpening
  /\ \E i, j \in 1..Len(gameState.crops) :
       /\ i # j
       /\ gameState.crops[i].plantedDay = OpeningDay
       /\ gameState.crops[j].plantedDay # OpeningDay
       /\ gameState.crops[i].id[Len(gameState.crops[i].id)]
            = gameState.crops[j].id[Len(gameState.crops[j].id)]

(***************************************************************************)
(* C3: a seed click on a tilled plot without a crop, with gold >= 20 and   *)
(* energy >= 2, appends one crop on that plot (stage 0, one of the four    *)
(* types, plantedDay the current day), takes 20 gold and 2 energy and      *)
(* changes nothing else.                                                   *)
(***************************************************************************)
SeedAccepted(s, x, z) ==
  /\ s.selectedTool = "seed"
  /\ IsTilled(s, x, z)
  /\ CropsAt(s, x, z) = {}
  /\ s.gold >= 20
  /\ s.energy >= 2

SeedEffect(x, z) ==
  LET n == Len(gameState.crops)
  IN /\ Len(gameState'.crops) = n + 1
     /\ SubSeq(gameState'.crops, 1, n) = gameState.crops
     /\ gameState'.crops[n + 1].x = x
     /\ gameState'.crops[n + 1].z = z
     /\ gameState'.crops[n + 1].stage = 0
     /\ gameState'.crops[n + 1].type \in {"carrot", "tomato", "corn", "turnip"}
     /\ gameState'.crops[n + 1].plantedDay = gameState.day
     /\ gameState'.gold = gameState.gold - 20
     /\ gameState'.energy = gameState.energy - 2
     /\ Keeps({"day", "season", "selectedTool", "tiledPlots"})

C3_SeedClick ==
  [][\A p \in Plots :
       (PlotClicked(p[1], p[2]) /\ SeedAccepted(gameState, p[1], p[2]))
         => SeedEffect(p[1], p[2])]_vars

\* the example of the claim: (0,0) tilled, then sown, from the initial state
C3_Witness ==
  /\ lastOp = Op("plotClick", 0, 0, NoId)
  /\ gameState.gold = 480
  /\ gameState.energy = 93
  /\ Len(gameState.crops) = 1
  /\ gameState.crops[1].stage = 0
  /\ gameState.crops[1].x = 0 /\ gameState.crops[1].z = 0
  /\ gameState.day = 1

(***************************************************************************)
(* C4: a harvest click on a crop of stage 3 removes that crop and no       *)
(* other, adds the price of its type to gold and changes nothing else,     *)
(* whatever the energy and the gold; on a crop of a lower stage it changes *)
(* nothing.                                                                *)
(***************************************************************************)
PriceOf(type) ==
  CASE type = "carrot" -> 35
    [] type = "tomato" -> 60
    [] type = "corn"   -> 50
    [] type = "turnip" -> 40

HarvestEffect(k) ==
  /\ gameState'.crops = Without(gameState.crops, k)
  /\ gameState'.gold = gameState.gold + PriceOf(gameState.crops[k].type)
  /\ Keeps({"energy", "day", "season", "selectedTool", "tiledPlots"})

C4_HarvestClick ==
  [][\A k \in 1..Len(gameState.crops) :
       (CropClicked(k) /\ gameState.selectedTool = "harvest")
         => IF gameState.crops[k].stage = 3
            THEN HarvestEffect(k)
            ELSE gameState' = gameState]_vars

\* the ready turnip of (0,0) was sold for 40 with no gold in hand
C4_Witness ==
  /\ lastOp.kind = "cropClick"
  /\ lastOp.x = 0 /\ lastOp.z = 0
  /\ gameState.selectedTool = "harvest"
  /\ gameState.gold = 40
  /\ Len(gameState.crops) = 24
  /\ CropsAt(gameState, 0, 0) = {}

(***************************************************************************)
(* C5: a water click on a plot whose crop has stage < 3, with energy >= 3, *)
(* raises that crop's stage by one (not above 3), takes 3 energy and       *)
(* changes nothing else; on a plot whose crop has stage 3 it changes       *)
(* nothing.                                                                *)
(***************************************************************************)
WaterEffect(k) ==
  /\ gameState'.crops =
       [gameState.crops EXCEPT ![k].stage = gameState.crops[k].stage + 1]
  /\ gameState'.crops[k].stage <= 3
  /\ gameState'.energy = gameState.energy - 3
  /\ Keeps({"gold", "day", "season", "selectedTool", "tiledPlots"})

C5_WaterPlotClick ==
  [][\A k \in 1..Len(gameState.crops) :
       (PlotClicked(gameState.crops[k].x, gameState.crops[k].z)
          /\ gameState.selectedTool = "water")
         => /\ (gameState.crops[k].stage < 3 /\ gameState.energy >= 3)
                 => WaterEffect(k)
            /\ gameState.crops[k].stage = 3 => gameState' = gameState]_vars

\* a crop sown on (0,0) after the opening was watered to stage 3 by three
\* plot clicks
C5_Witness ==
  /\ ~InOpening
  /\ lastOp = Op("plotClick", 0, 0, NoId)
  /\ gameState.selectedTool = "water"
  /\ gameState.energy = 2
  /\ \E k \in CropsAt(gameState, 0, 0) :
       /\ gameState.crops[k].stage = 3
       /\ gameState.crops[k].plantedDay = OpeningDay

(***************************************************************************)
(* C6: a hoe click on a plot that is not tilled, with energy >= 5, adds    *)
(* the plot to the tilled set, takes 5 energy and changes nothing else; a  *)
(* hoe click on a tilled plot, or with energy < 5, changes nothing.        *)
(***************************************************************************)
TillEffect(x, z) ==
  /\ gameState'.tiledPlots = gameState.tiledPlots \cup {plotKey(x, z)}
  /\ gameState'.energy = gameState.energy - 5
  /\ Keeps({"gold", "crops", "day", "season", "selectedTool"})

C6_TillClick ==
  [][\A p \in Plots :
       (PlotClicked(p[1], p[2]) /\ gameState.selectedTool = "hoe")
         => IF ~IsTilled(gameState, p[1], p[2]) /\ gameState.energy >= 5
            THEN TillEffect(p[1], p[2])
            ELSE gameState' = gameState]_vars

\* plot (1,0) was tilled after the opening
C6_Witness ==
  /\ ~InOpening
  /\ lastOp = Op("plotClick", 1, 0, NoId)
  /\ gameState.selectedTool = "hoe"
  /\ IsTilled(gameState, 1, 0)
  /\ gameState.energy = 8

(***************************************************************************)
(* C7: nextDay can be taken in every state (below the day bound of the     *)
(* model), sets day to day + 1 and energy to 100 and leaves gold, the      *)
(* crops, the tilled set and the selected tool as they were.               *)
(***************************************************************************)
C7_NextDay ==
  /\ []((~InOpening /\ gameState.day < MaxDay) => ENABLED NextDay)
  /\ [][lastOp'.kind = "nextDay"
          => /\ gameState'.day = gameState.day + 1
             /\ gameState'.energy = 100
             /\ Keeps({"gold", "crops", "tiledPlots", "selectedTool"})]_vars

\* the day was advanced after the opening, with crops of several stages in
\* the collection
C7_Witness ==
  /\ ~InOpening
  /\ lastOp.kind = "nextDay"
  /\ gameState.day = OpeningDay + 1
  /\ gameState.energy = 100
  /\ \E i, j \in 1..Len(gameState.crops) :
       gameState.crops[i].stage = 3 /\ gameState.crops[j].stage = 0

(***************************************************************************)
(* C8: the season is the one of the day: Spring for days 1..28, Summer for *)
(* 29..56, Fall for 57..84, Winter for 85..112, and again from day 113.    *)
(***************************************************************************)
SeasonOfDay(day) ==
  LET d == (day - 1) % 112
  IN IF d < 28 THEN "Spring"
     ELSE IF d < 56 THEN "Summer"
     ELSE IF d < 84 THEN "Fall"
     ELSE "Winter"

C8_SeasonOfDay == gameState.season = SeasonOfDay(gameState.day)

\* the first day of the second year
C8_Witness ==
  /\ lastOp.kind = "nextDay"
  /\ gameState.day = 113
  /\ gameState.season = "Spring"

(***************************************************************************)
(* C9: a plot click or crop click whose precondition for the selected tool *)
(* does not hold leaves day, season, gold, energy, tool, crops and tilled  *)
(* set as they were.                                                       *)
(***************************************************************************)
TillAccepted(s, x, z) ==
  s.selectedTool = "hoe" /\ ~IsTilled(s, x, z) /\ s.energy >= 5

WaterAccepted(s, x, z) ==
  /\ s.selectedTool = "water"
  /\ \E k \in CropsAt(s, x, z) : s.crops[k].stage < 3
  /\ s.energy >= 3

C9_RefusedClick ==
  [][/\ \A p \in Plots :
          (/\ PlotClicked(p[1], p[2])
           /\ ~TillAccepted(gameState, p[1], p[2])
           /\ ~SeedAccepted(gameState, p[1], p[2])
           /\ ~WaterAccepted(gameState, p[1], p[2]))
            => gameState' = gameState
     /\ \A k \in 1..Len(gameState.crops) :
          (/\ CropClicked(k)
           /\ ~(gameState.selectedTool = "harvest" /\ gameState.crops[k].stage = 3)
           /\ ~(/\ gameState.selectedTool = "water"
                /\ gameState.crops[k].stage < 3
                /\ gameState.energy >= 3))
            => gameState' = gameState]_vars

\* a seed click on a tilled, empty plot was refused for want of gold alone
C9_Witness ==
  /\ lastOp.kind = "plotClick"
  /\ gameState.selectedTool = "seed"
  /\ IsTilled(gameState, lastOp.x, lastOp.z)
  /\ CropsAt(gameState, lastOp.x, lastOp.z) = {}
  /\ gameState.gold < 20
  /\ gameState.energy >= 2

(***************************************************************************)
(* C11: every crop of the collection stands on a plot of the 7x7 grid that *)
(* is in the tilled set.                                                   *)
(***************************************************************************)
C11_CropsOnTilledPlots ==
  \A i \in 1..Len(gameState.crops) :
    /\ gameState.crops[i].x \in 0..6
    /\ gameState.crops[i].z \in 0..6
    /\ IsTilled(gameState, gameState.crops[i].x, gameState.crops[i].z)

\* plot (1,0) was tilled and sown after the opening, beside untilled plots
C11_Witness ==
  /\ ~InOpening
  /\ CropsAt(gameState, 1, 0) # {}
  /\ Cardinality(gameState.tiledPlots) < GridSize * GridSize

(***************************************************************************)
(* C12: the stage of every crop is in 0..3.  In every step a crop that     *)
(* enters the collection has stage 0; a crop that stays keeps its stage or *)
(* gains exactly one stage, and gains it only in a water click that takes  *)
(* exactly 3 energy; a crop leaves the collection only in a harvest click  *)
(* on it, taken while its stage is 3.                                      *)
(***************************************************************************)
Ids(crops) == {crops[i].id : i \in 1..Len(crops)}

IndexOf(crops, id) == (CHOOSE i \in 1..Len(crops) : crops[i].id = id)

C12_StageSteps ==
  /\ [](\A i \in 1..Len(gameState.crops) : gameState.crops[i].stage \in 0..3)
  /\ [][/\ \A id \in Ids(gameState'.crops) \ Ids(gameState.crops) :
             gameState'.crops[IndexOf(gameState'.crops, id)].stage = 0
        /\ \A id \in Ids(gameState.crops) \cap Ids(gameState'.crops) :
             LET old == gameState.crops[IndexOf(gameState.crops, id)].stage
                 new == gameState'.crops[IndexOf(gameState'.crops, id)].stage
             IN /\ new \in {old, old + 1}
                /\ new # old =>
                     /\ gameState.selectedTool = "water"
                     /\ lastOp'.kind \in {"plotClick", "cropClick"}
                     /\ gameState'.energy = gameState.energy - 3
        /\ \A id \in Ids(gameState.crops) \ Ids(gameState'.crops) :
             /\ gameState.selectedTool = "harvest"
             /\ lastOp'.kind = "cropClick"
             /\ lastOp'.id = id
             /\ gameState.crops[IndexOf(gameState.crops, id)].stage = 3]_vars

\* a crop sown after the opening was watered three times and harvested
C12_Witness ==
  /\ ~InOpening
  /\ lastOp.kind = "cropClick"
  /\ gameState.selectedTool = "harvest"
  /\ Len(gameState.crops) = 24
  /\ gameState.gold >= 55

(***************************************************************************)
(* C13: the handlers are atomic: in every click step, whatever the order   *)
(* of clicks, day advances and re-renders, the state on which the guard is *)
(* evaluated (rendered) is the state to which the update is applied        *)
(* (gameState).  Stated under SpecQueued, where the re-render is a step.   *)
(***************************************************************************)
C13_GuardOnCurrentState ==
  [][lastOp'.kind \in {"plotClick", "cropClick"} => rendered = gameState]_vars

(***************************************************************************)
(* C17: gold and energy never become negative, also when several clicks    *)
(* are handled on the same rendered snapshot before the re-render.  Stated *)
(* under SpecQueued.                                                       *)
(***************************************************************************)
C17_ResourcesUnderQueuedUpdates ==
  gameState.energy >= 0 /\ gameState.gold >= 0

(***************************************************************************)
(* C14: the selected tool is always one of the four tools, hoe at the      *)
(* start.  selectTool(t) can be taken for every tool t in every state (the *)
(* opening of the model apart); it sets selectedTool to t and changes no   *)
(* other field of the state; taken twice it gives the state it gives when  *)
(* taken once.                                                             *)
(***************************************************************************)
C14_SelectTool ==
  /\ [](gameState.selectedTool \in {"hoe", "water", "seed", "harvest"})
  /\ [](lastOp.kind = "init" => gameState.selectedTool = "hoe")
  /\ [](~InOpening => \A t \in Tools : ENABLED SelectTool(t))
  /\ [](\A t \in Tools :
          selectTool(selectTool(gameState, t), t) = selectTool(gameState, t))
  /\ [][\A t \in Tools :
          SelectTool(t)
            => /\ gameState'.selectedTool = t
               /\ Keeps({"day", "season", "gold", "energy", "crops",
                         "tiledPlots"})]_vars

\* the harvest tool was selected after the opening, after a click that
\* took energy
C14_Witness ==
  /\ ~InOpening
  /\ lastOp.kind = "selectTool"
  /\ gameState.selectedTool = "harvest"
  /\ gameState.energy < 13
  /\ gameState.gold > 0

(***************************************************************************)
(* C15: day is at least 1 and changes only in a next-day step, by exactly  *)
(* +1.  Gold falls only in an accepted seed click, by exactly 20, and      *)
(* rises only in an accepted harvest click; tilling, watering, selecting a *)
(* tool and advancing the day leave gold as it was.                        *)
(***************************************************************************)
C15_DayAndGoldFrame ==
  /\ [](gameState.day >= 1)
  /\ [][/\ gameState'.day # gameState.day
             => /\ lastOp'.kind = "nextDay"
                /\ gameState'.day = gameState.day + 1
        /\ gameState'.gold < gameState.gold
             => /\ lastOp'.kind = "plotClick"
                /\ SeedAccepted(gameState, lastOp'.x, lastOp'.z)
                /\ gameState'.gold = gameState.gold - 20
                /\ Len(gameState'.crops) = Len(gameState.crops) + 1
        /\ gameState'.gold > gameState.gold
             => /\ lastOp'.kind = "cropClick"
                /\ gameState.selectedTool = "harvest"
                /\ Len(gameState'.crops) = Len(gameState.crops) - 1
        /\ lastOp'.kind \in {"selectTool", "nextDay"}
             => gameState'.gold = gameState.gold
        /\ gameState.selectedTool \in {"hoe", "water"}
             => gameState'.gold = gameState.gold]_vars

\* after the opening gold rose by a harvest and fell by a seed click
C15_Witness ==
  /\ ~InOpening
  /\ lastOp.kind = "plotClick"
  /\ gameState.selectedTool = "seed"
  /\ gameState.gold = 20
  /\ Len(gameState.crops) = 25
  /\ gameState.day = OpeningDay

(***************************************************************************)
(* C16: with the water tool selected, a click on a crop and a click on the *)
(* plot the crop stands on are equivalent: in every reachable state both   *)
(* are accepted under the same condition (stage < 3 and energy >= 3) and   *)
(* give the same successor state, and every such click step taken gives    *)
(* the state the other click would give.                                   *)
(***************************************************************************)
C16_WaterClicksAgree ==
  /\ [](gameState.selectedTool = "water"
          => \A k \in 1..Len(gameState.crops) :
               LET crop == gameState.crops[k]
               IN /\ CanWaterCrop(gameState, crop)
                       <=> CanWaterPlot(gameState, crop.x, crop.z)
                  /\ CanWaterCrop(gameState, crop)
                       <=> (crop.stage < 3 /\ gameState.energy >= 3)
                  /\ handleCropClick(gameState, gameState, crop)
                       = handlePlotClick(gameState, gameState,
                                         crop.x, crop.z, 0, 0))
  /\ [][gameState.selectedTool = "water"
          => \A k \in 1..Len(gameState.crops) :
               LET crop == gameState.crops[k]
               IN /\ CropClicked(k)
                       => gameState' = handlePlotClick(gameState, gameState,
                                                       crop.x, crop.z, 0, 0)
                  /\ PlotClicked(crop.x, crop.z)
                       => gameState' = handleCropClick(gameState, gameState,
                                                       crop)]_vars

\* a crop sown after the opening was watered by a click on the crop
C16_Witness ==
  /\ ~InOpening
  /\ lastOp.kind = "cropClick"
  /\ gameState.selectedTool = "water"
  /\ \E k \in CropsAt(gameState, lastOp.x, lastOp.z) :
       /\ gameState.crops[k].plantedDay = OpeningDay
       /\ gameState.crops[k].stage = 2

(***************************************************************************)
(* C18: a plot that is in the tilled set stays in it in every step, the    *)
(* harvest and next-day steps included, so that right after the harvest of *)
(* its crop the plot takes a seed click again (given 2 energy) without     *)
(* being tilled again.                                                     *)
(***************************************************************************)
C18_TillingIsOneWay ==
  [][/\ gameState.tiledPlots \subseteq gameState'.tiledPlots
     /\ \A k \in 1..Len(gameState.crops) :
          (/\ CropClicked(k)
           /\ Len(gameState'.crops) < Len(gameState.crops))
            => LET x == gameState.crops[k].x
                   z == gameState.crops[k].z
               IN /\ IsTilled(gameState', x, z)
                  /\ gameState'.energy >= 2
                       => CanSeed(selectTool(gameState', "seed"), x, z)]_vars

\* plot (0,0), tilled on day 1, was sown again after the harvest of its
\* crop, and the day was advanced
C18_Witness ==
  /\ ~InOpening
  /\ lastOp.kind = "nextDay"
  /\ IsTilled(gameState, 0, 0)
  /\ \E k \in CropsAt(gameState, 0, 0) : gameState.crops[k].plantedDay = OpeningDay

(***************************************************************************)
(* C19: gold plus 20 for every crop of the collection is at least 500, so  *)
(* that whenever gold is below 20 (a seed click is refused) a crop stands  *)
(* that can be grown and harvested.                                        *)
(***************************************************************************)
C19_Solvency ==
  /\ gameState.gold + 20 * Len(gameState.crops) >= 500
  /\ gameState.gold < 20 => Len(gameState.crops) >= 1

\* after the opening, with no gold and 25 crops, a seed click on the tilled
\* empty plot (1,0) was refused
C19_Witness ==
  /\ ~InOpening
  /\ lastOp = Op("plotClick", 1, 0, NoId)
  /\ gameState.selectedTool = "seed"
  /\ IsTilled(gameState, 1, 0)
  /\ CropsAt(gameState, 1, 0) = {}
  /\ gameState.gold = 0
  /\ Len(gameState.crops) = 25

(***************************************************************************)
(* C20: the number of tilled plots is at most 20 times the day: a till     *)
(* takes 5 of the 100 energy of a day.                                     *)
(***************************************************************************)
C20_TilledPlotsPerDay ==
  Cardinality(gameState.tiledPlots) <= 20 * gameState.day

\* on day 2, with 40 plots tilled and no energy left, a hoe click on an
\* untilled plot was refused
C20_Witness ==
  /\ gameState.day = 2
  /\ lastOp.kind = "plotClick"
  /\ ~IsTilled(gameState, lastOp.x, lastOp.z)
  /\ gameState.energy = 0
  /\ Cardinality(gameState.tiledPlots) = 40

====
